---- MODULE Spec2Model ----
(***************************************************************************)
(* Delivery route optimizer: the API gateway (src/backend/main.py), the    *)
(* agent service (src/agent/main.py) and the CrewAI pipeline               *)
(* (src/agent/crewai_agents.py).                                           *)
(*                                                                         *)
(* Texts (model replies, prompts, explanations) are sequences of tokens.   *)
(* A token is a string: one character class of a reply, or one literal     *)
(* chunk of a template.  Russian literals of the source are written in     *)
(* Latin transliteration.                                                  *)
(***************************************************************************)
EXTENDS Naturals, Sequences, FiniteSets, TLC

\* ------------------------------------------------------------------ bounds

\* Longest model reply, in tokens.
MaxLen == 4
\* Longest address list of a request.
MaxAddrs == 2

\* --------------------------------------------------------------- requests

\* Python's None, where it is rendered or forwarded as a value.
NoneVal == "None"

\* Address(BaseModel): address: str, priority: int.
Address == {[address |-> "A", priority |-> 3], [address |-> "B", priority |-> 5]}

RECURSIVE SeqsUpTo(_, _)
SeqsUpTo(S, n) ==
    IF n = 0 THEN {<<>>}
    ELSE LET shorter == SeqsUpTo(S, n - 1)
         IN  shorter \cup {Append(s, x) : s \in {t \in shorter : Len(t) = n - 1}, x \in S}

AddressLists == SeqsUpTo(Address, MaxAddrs)

\* "{fog}" is a weather string a caller may send that str.format reads as a
\* replacement field.
WeatherValues == {NoneVal, "rain", "{fog}"}
TrafficValues == {NoneVal, "heavy"}
\* special_requirements: <<>> stands for None and for [], which the code
\* treats alike ("if requirements").
RequirementValues == {<<>>, <<"fragile">>}

\* DeliveryRequest(BaseModel).  warehouse_delays is always None here.
DeliveryRequest ==
    [addresses : AddressLists,
     weather_condition : WeatherValues,
     traffic_condition : TrafficValues,
     special_requirements : RequirementValues]

\* [addr["address"] for addr in addresses]
RECURSIVE AddressStrings(_)
AddressStrings(addresses) ==
    IF addresses = <<>> THEN <<>>
    ELSE <<Head(addresses).address>> \o AddressStrings(Tail(addresses))

\* ------------------------------------------------------------------ texts

\* The tokens of a model reply:
\*   " "  white space            "w"  a letter (no JSON by itself)
\*   "n"  a digit 1..9           "{"  "}"  braces
\*   "b"  the members  "optimized_route": ["B","A"], "explanation": "...",
\*        "total_estimated_time": "1 hour"
\*   "z"  the members  "optimized_route": [], "explanation": "..."
\*   "f"  the members of "b" and "risk_assessment", "success_probability"
\*   "l"  the members of "b" with a route of MaxAddrs + 1 entries
BodyTokens == {"b", "z", "f", "l"}

RECURSIVE LStrip(_)
LStrip(t) == IF t # <<>> /\ Head(t) = " " THEN LStrip(Tail(t)) ELSE t

RECURSIVE RStrip(_)
RStrip(t) ==
    IF t # <<>> /\ t[Len(t)] = " " THEN RStrip(SubSeq(t, 1, Len(t) - 1)) ELSE t

\* str.strip()
Strip(t) == RStrip(LStrip(t))

RECURSIVE Flatten(_)
Flatten(ss) == IF ss = <<>> THEN <<>> ELSE Head(ss) \o Flatten(Tail(ss))

\* ------------------------------------------------------------ JSON values

\* A JSON (or Python) value: an object with its members, a number, or an
\* object of the orchestration framework that is neither str nor dict.
Object(m) == [type |-> "object", members |-> m]
Number == [type |-> "number"]
Opaque == [type |-> "opaque"]

NoMembers == [k \in {} |-> 0]

RECURSIVE LongRoute(_)
LongRoute(n) == IF n = 0 THEN <<>> ELSE Append(LongRoute(n - 1), "A")

\* The members a body token stands for.
Members(tok) ==
    CASE tok = "b" -> [optimized_route |-> <<"B", "A">>,
                       explanation |-> <<"B is higher priority">>,
                       total_estimated_time |-> "1 hour"]
      [] tok = "z" -> [optimized_route |-> <<>>,
                       explanation |-> <<"no route">>]
      [] tok = "f" -> [optimized_route |-> <<"B", "A">>,
                       explanation |-> <<"B is higher priority">>,
                       total_estimated_time |-> "1 hour",
                       risk_assessment |-> "low",
                       success_probability |-> 9]
      [] tok = "l" -> [optimized_route |-> LongRoute(MaxAddrs + 1),
                       explanation |-> <<"B is higher priority">>,
                       total_estimated_time |-> "1 hour"]

JSONDecodeError == [ok |-> FALSE, error |-> "JSONDecodeError"]
Parsed(v) == [ok |-> TRUE, value |-> v]

\* json.loads(s): white space is skipped at both ends and inside the braces;
\* digits alone are a number; "{" members "}" is an object; everything else
\* (a letter, extra data after the value, two bodies without a comma) raises
\* JSONDecodeError.
JsonLoads(s) ==
    LET t == Strip(s)
    IN  IF t = <<>> THEN JSONDecodeError
        ELSE IF \A i \in 1..Len(t) : t[i] = "n" THEN Parsed(Number)
        ELSE IF Len(t) >= 2 /\ t[1] = "{" /\ t[Len(t)] = "}"
             THEN LET inner == Strip(SubSeq(t, 2, Len(t) - 1))
                  IN  IF inner = <<>> THEN Parsed(Object(NoMembers))
                      ELSE IF Len(inner) = 1 /\ inner[1] \in BodyTokens
                           THEN Parsed(Object(Members(inner[1])))
                           ELSE JSONDecodeError
             ELSE JSONDecodeError

\* re.match in place of re.search: the pattern only at the start of the text.
RegexMatch(t) ==
    LET closes == {i \in 1..Len(t) : t[i] = "}"}
    IN  IF t = <<>> \/ t[1] # "{" \/ closes = {} THEN <<>>
        ELSE SubSeq(t, 1, CHOOSE i \in closes : \A j \in closes : j <= i)

\* re.search(r'\{.*\}', result, re.DOTALL): the leftmost "{" that has a "}"
\* after it, up to the last "}" of the text (greedy).  <<>> when none.
RegexSearch(t) ==
    LET opens == {i \in 1..Len(t) : t[i] = "{"}
        closes == {i \in 1..Len(t) : t[i] = "}"}
    IN  IF opens = {} \/ closes = {} THEN <<>>
        ELSE LET first == CHOOSE i \in opens : \A j \in opens : i <= j
                 last == CHOOSE i \in closes : \A j \in closes : j <= i
             IN  IF first < last THEN SubSeq(t, first, last) ELSE <<>>

\* ---------------------------------------------------------------- prompts

RECURSIVE Join(_, _)
\* sep.join(parts), each part a text.
Join(parts, sep) ==
    IF parts = <<>> THEN <<>>
    ELSE IF Len(parts) = 1 THEN Head(parts)
    ELSE Head(parts) \o <<sep>> \o Join(Tail(parts), sep)

\* weather_desc.get(weather, weather)
WeatherDesc(weather) ==
    CASE weather = "sunny" -> "solnechnaya pogoda"
      [] weather = "rain" -> "dozhd"
      [] weather = "snow" -> "sneg"
      [] weather = "fog" -> "tuman"
      [] OTHER -> weather

\* traffic_desc.get(traffic, traffic)
TrafficDesc(traffic) ==
    CASE traffic = "light" -> "legkie probki"
      [] traffic = "moderate" -> "umerennye probki"
      [] traffic = "heavy" -> "silnye probki"
      [] OTHER -> traffic

\* f"{i}. {addr['address']} (prioritet: {addr['priority']}/5)"
AddressLine(i, addr) ==
    <<ToString(i), ". ", addr.address, " (prioritet: ", ToString(addr.priority), "/5)">>

\* RouteOptimizerAgent.create_prompt
create_prompt(data) ==
    LET addresses == data.addresses
        weather == data.weather_condition
        traffic == data.traffic_condition
        requirements == data.special_requirements
    IN  <<"Zadacha optimizatsii marshruta dostavki: ADRESA DOSTAVKI:">>
        \o Flatten([i \in 1..Len(addresses) |-> AddressLine(i, addresses[i]) \o <<"\n">>])
        \o <<"USLOVIYA:">>
        \o (IF weather # NoneVal
            THEN <<"- Pogoda: ", WeatherDesc(weather), "\n">> ELSE <<>>)
        \o (IF traffic # NoneVal
            THEN <<"- Probki: ", TrafficDesc(traffic), "\n">> ELSE <<>>)
        \o (IF requirements # <<>>
            THEN <<"- Osobye trebovaniya: ">>
                 \o Join([i \in 1..Len(requirements) |-> <<requirements[i]>>], ", ")
                 \o <<"\n">>
            ELSE <<>>)
        \o <<"Opredeli optimalnyi poryadok dostavki ... Otvet v formate JSON">>

\* The replacement fields str.format finds in a text, with their names.
FieldName ==
    [tok \in {"{weather_condition}", "{traffic_condition}", "{addresses}",
              "{priorities}", "{special_requirements}", "{fog}"} |->
        CASE tok = "{weather_condition}" -> "weather_condition"
          [] tok = "{traffic_condition}" -> "traffic_condition"
          [] tok = "{addresses}" -> "addresses"
          [] tok = "{priorities}" -> "priorities"
          [] tok = "{special_requirements}" -> "special_requirements"
          [] tok = "{fog}" -> "fog"]

KeyError(name) == [ok |-> FALSE, error |-> <<"'", name, "'">>]

\* text.format(**kwargs): every replacement field of the text is replaced by
\* its argument (the argument is not scanned again); a field that has no
\* argument raises KeyError.
Format(text, kwargs) ==
    LET fields == {i \in 1..Len(text) : text[i] \in DOMAIN FieldName}
        missing == {i \in fields : FieldName[text[i]] \notin DOMAIN kwargs}
    IN  IF missing # {}
        THEN KeyError(FieldName[text[CHOOSE i \in missing : \A j \in missing : i <= j]])
        ELSE [ok |-> TRUE,
              text |-> Flatten([i \in 1..Len(text) |->
                          IF i \in fields THEN kwargs[FieldName[text[i]]]
                          ELSE <<text[i]>>])]

\* RouteOptimizationCrew.setup_tasks: the four task descriptions.
setup_tasks ==
    [weather_task |->
        <<"Analyze the weather conditions: ", "{weather_condition}",
          " and provide insights on how it affects delivery routes. ...">>,
     traffic_task |->
        <<"Analyze the traffic conditions: ", "{traffic_condition}",
          " and provide insights on optimal routing strategies. ...">>,
     route_task |->
        <<"Create an optimized delivery route for the following addresses: ",
          "{addresses}", " Consider: - Customer priorities: ", "{priorities}",
          " ... - Special requirements: ", "{special_requirements}",
          " Return the optimized route in JSON format ...">>,
     coordination_task |->
        <<"As the delivery coordinator, synthesize all analyses ...">>]

\* addresses_str
AddressesStr(addresses) ==
    Join([i \in 1..Len(addresses) |-> AddressLine(i, addresses[i])], "\n")

\* priorities_str
PrioritiesStr(addresses) ==
    Join([i \in 1..Len(addresses) |->
            <<addresses[i].address, ": ", ToString(addresses[i].priority)>>], ", ")

\* ", ".join(requirements) if requirements else "net"
RequirementsStr(requirements) ==
    IF requirements # <<>>
    THEN Join([i \in 1..Len(requirements) |-> <<requirements[i]>>], ", ")
    ELSE <<"net">>

\* RouteOptimizationCrew.optimize_route, the three assignments to the task
\* descriptions of the shared crew, in order; an exception leaves the
\* assignments before it in place.  Returns the tasks and the exception.
UpdateTasks(tasks, data) ==
    LET w == Format(tasks.weather_task,
                    [weather_condition |-> <<data.weather_condition>>])
        t == Format(tasks.traffic_task,
                    [traffic_condition |-> <<data.traffic_condition>>])
        r == Format(tasks.route_task,
                    [addresses |-> AddressesStr(data.addresses),
                     priorities |-> PrioritiesStr(data.addresses),
                     special_requirements |-> RequirementsStr(data.special_requirements)])
    IN  IF ~w.ok THEN [ok |-> FALSE, error |-> w.error, tasks |-> tasks]
        ELSE LET t1 == [tasks EXCEPT !.weather_task = w.text]
             IN  IF ~t.ok THEN [ok |-> FALSE, error |-> t.error, tasks |-> t1]
                 ELSE LET t2 == [t1 EXCEPT !.traffic_task = t.text]
                      IN  IF ~r.ok THEN [ok |-> FALSE, error |-> r.error, tasks |-> t2]
                          ELSE [ok |-> TRUE, error |-> <<>>,
                                tasks |-> [t2 EXCEPT !.route_task = r.text]]

\* The task descriptions a fresh crew would get for this request alone.
OwnTasks(data) == UpdateTasks(setup_tasks, data).tasks

\* Crew(tasks=[...]): the descriptions the four stages are run with.
CrewPrompts(tasks) ==
    <<tasks.weather_task, tasks.traffic_task, tasks.route_task, tasks.coordination_task>>

\* ------------------------------------------------------------- normalizer

\* What the model client (direct mode) or crew.kickoff() (pipeline mode)
\* hands back: an exception with its message, a text, no content at all
\* (message.content is None), or a value that is not a str.
Raised(cause) == [kind |-> "error", cause |-> cause]
Text(t) == [kind |-> "text", text |-> t]
NoContent == [kind |-> "none"]
Structured(v) == [kind |-> "value", value |-> v]

\* str(e) of the client's timeout and connection errors.
TransportCauses == {"Request timed out.", "Connection error."}

\* The error result without the input's addresses.
DirectErrorResultNoRoute(data, cause) ==
    Object([optimized_route |-> <<>>,
            explanation |-> <<"Oshibka pri obrashchenii k ChatGPT: ">> \o cause,
            total_estimated_time |-> "neizvestno"])

\* RouteOptimizerAgent.optimize_route, the outer except clause.
DirectErrorResult(data, cause) ==
    Object([optimized_route |-> AddressStrings(data.addresses),
            explanation |-> <<"Oshibka pri obrashchenii k ChatGPT: ">> \o cause,
            total_estimated_time |-> "neizvestno"])

\* The fallback without the input's addresses.
DirectTextResultNoRoute(data, result_text) ==
    Object([optimized_route |-> <<>>,
            explanation |-> result_text,
            total_estimated_time |-> "2-3 chasa"])

\* RouteOptimizerAgent.optimize_route, the except json.JSONDecodeError clause.
DirectTextResult(data, result_text) ==
    Object([optimized_route |-> AddressStrings(data.addresses),
            explanation |-> result_text,
            total_estimated_time |-> "2-3 chasa"])

\* RouteOptimizerAgent.optimize_route, from the model client's outcome on.
DirectOptimizeRoute(data, outcome) ==
    CASE outcome.kind = "error" -> DirectErrorResult(data, <<outcome.cause>>)
      [] outcome.kind = "none" ->
            DirectErrorResult(data, <<"'NoneType' object has no attribute 'strip'">>)
      [] outcome.kind = "text" ->
            LET result_text == Strip(outcome.text)
                parsed == JsonLoads(result_text)
            IN  IF parsed.ok THEN parsed.value
                ELSE DirectTextResult(data, result_text)

\* The error result with the confidence of the parse-error fallback.
CrewErrorResultConfident(data, cause) ==
    Object([optimized_route |-> AddressStrings(data.addresses),
            explanation |-> <<"Oshibka CrewAI: ">> \o cause,
            total_estimated_time |-> "neizvestno",
            risk_assessment |-> "Oshibka v protsesse analiza",
            success_probability |-> 7])

\* RouteOptimizationCrew.optimize_route, the outer except clause.
CrewErrorResult(data, cause) ==
    Object([optimized_route |-> AddressStrings(data.addresses),
            explanation |-> <<"Oshibka CrewAI: ">> \o cause,
            total_estimated_time |-> "neizvestno",
            risk_assessment |-> "Oshibka v protsesse analiza",
            success_probability |-> 1])

\* The no-JSON fallback with the explanation of the parse-error fallback.
CrewTextResultPrefixed(data, result) ==
    Object([optimized_route |-> AddressStrings(data.addresses),
            explanation |-> <<"CrewAI analiz zavershen. Rezultat: ">> \o result,
            total_estimated_time |-> "2-3 chasa",
            risk_assessment |-> "Standartnye riski dostavki",
            success_probability |-> 8])

\* RouteOptimizationCrew.optimize_route, no JSON found in the text.
CrewTextResult(data, result) ==
    Object([optimized_route |-> AddressStrings(data.addresses),
            explanation |-> result,
            total_estimated_time |-> "2-3 chasa",
            risk_assessment |-> "Standartnye riski dostavki",
            success_probability |-> 8])

\* The parse-error fallback with the result of the no-JSON fallback.
CrewParseErrorResultAsText(data, result) ==
    Object([optimized_route |-> AddressStrings(data.addresses),
            explanation |-> result,
            total_estimated_time |-> "2-3 chasa",
            risk_assessment |-> "Standartnye riski dostavki",
            success_probability |-> 8])

\* RouteOptimizationCrew.optimize_route, the except (json.JSONDecodeError,
\* AttributeError) clause.
CrewParseErrorResult(data, result) ==
    Object([optimized_route |-> AddressStrings(data.addresses),
            explanation |-> <<"CrewAI analiz zavershen. Rezultat: ">> \o result,
            total_estimated_time |-> "2-3 chasa",
            risk_assessment |-> "Analiz zavershen uspeshno",
            success_probability |-> 7])

\* The crew's failure taken for a reply that did not parse.
CrewOptimizeRouteFailureAsReply(data, outcome) ==
    CASE outcome.kind = "error" -> CrewParseErrorResult(data, <<outcome.cause>>)
      [] outcome.kind = "text" ->
            LET json_match == RegexSearch(outcome.text)
            IN  IF json_match # <<>>
                THEN LET parsed == JsonLoads(json_match)
                     IN  IF parsed.ok THEN parsed.value
                         ELSE CrewParseErrorResult(data, outcome.text)
                ELSE CrewTextResult(data, outcome.text)
      [] outcome.kind = "value" -> outcome.value

\* RouteOptimizationCrew.optimize_route, from crew.kickoff()'s outcome on.
CrewOptimizeRoute(data, outcome) ==
    CASE outcome.kind = "error" -> CrewErrorResult(data, <<outcome.cause>>)
      [] outcome.kind = "text" ->
            LET json_match == RegexSearch(outcome.text)
            IN  IF json_match # <<>>
                THEN LET parsed == JsonLoads(json_match)
                     IN  IF parsed.ok THEN parsed.value
                         ELSE CrewParseErrorResult(data, outcome.text)
                ELSE CrewTextResult(data, outcome.text)
      [] outcome.kind = "value" -> outcome.value

\* A RouteResult: an object with at least optimized_route and explanation.
IsRouteResult(v) ==
    /\ v.type = "object"
    /\ {"optimized_route", "explanation"} \subseteq DOMAIN v.members

\* ---------------------------------------------------------- agent service

Null == [type |-> "null"]
NoResponse == [status |-> 0, body |-> Null]
NoOutcome == [kind |-> "pending"]

\* jsonify(result) inside the handler's try: a value json cannot serialize
\* raises TypeError, which the handler's except turns into a 500 reply.
AgentReply(result) ==
    IF result.type = "opaque"
    THEN [status |-> 500,
          body |-> Object([error |-> <<"Vnutrennyaya oshibka: ", "TypeError">>])]
    ELSE [status |-> 200, body |-> result]

\* optimize / optimize_crewai: "if not data" and the addresses check.
AgentRejects(data) == data.addresses = <<>>

AgentBadRequest ==
    [status |-> 400, body |-> Object([error |-> <<"Neobkhodim spisok adresov">>])]

\* ---------------------------------------------------------------- gateway

\* The exceptions of the gateway handler and their base classes (httpx,
\* fastapi): ConnectTimeout and ReadTimeout are TimeoutExceptions, ReadError
\* is another transport error, HTTPException and AttributeError are plain
\* Exceptions.
Bases ==
    [cls \in {"ConnectError", "ConnectTimeout", "ReadTimeout", "ReadError",
              "HTTPException", "AttributeError"} |->
        CASE cls = "ConnectTimeout" -> {"ConnectTimeout", "TimeoutException", "Exception"}
          [] cls = "ReadTimeout" -> {"ReadTimeout", "TimeoutException", "Exception"}
          [] OTHER -> {cls, "Exception"}]

\* The exceptions client.post raises before the agent got the request, and
\* while the gateway waits for the agent's reply.
ConnectExceptions == {"ConnectError", "ConnectTimeout"}
ReadExceptions == {"ReadTimeout", "ReadError"}

\* The except clauses with the two statuses exchanged.
ExceptStatusSwapped(cls) ==
    IF "TimeoutException" \in Bases[cls] THEN 503
    ELSE IF "ConnectError" \in Bases[cls] THEN 504
    ELSE 500

\* The three except clauses of optimize_route / optimize_route_crewai, in
\* order: the status of the HTTPException each raises.  The last one catches
\* every Exception, the HTTPExceptions raised inside the try among them,
\* whatever status_code they carry.
ExceptStatus(cls) ==
    IF "TimeoutException" \in Bases[cls] THEN 504
    ELSE IF "ConnectError" \in Bases[cls] THEN 503
    ELSE 500

\* raise HTTPException(status_code=...), and no exception.
HTTPException(status_code) ==
    [raised |-> TRUE, cls |-> "HTTPException", status_code |-> status_code]
NoException == [raised |-> FALSE]

\* The validation without its second check.
ValidateNonEmpty(request) ==
    IF request.addresses = <<>> THEN HTTPException(400) ELSE NoException

\* The gateway's validation, the first statements of the handler's try: the
\* exception it raises.
Validate(request) ==
    IF request.addresses = <<>> THEN HTTPException(400)
    ELSE IF Len(request.addresses) < 2 THEN HTTPException(400)
    ELSE NoException

\* An error reply of the gateway ({"detail": ...}).
GatewayError(status) ==
    [status |-> status, body |-> Object([detail |-> <<"error">>])]

\* result.get(key, default)
Get(members, key, default) ==
    IF key \in DOMAIN members THEN members[key] ELSE default

\* RouteResponse reading the route task's "reasoning" for the explanation.
RouteResponseReasoning(members) ==
    Object([optimized_route |-> Get(members, "optimized_route", <<>>),
            explanation |-> Get(members, "reasoning", <<>>),
            total_estimated_time |-> Get(members, "total_estimated_time", NoneVal)])

\* RouteResponse(optimized_route=..., explanation=..., total_estimated_time=...)
RouteResponse(members) ==
    Object([optimized_route |-> Get(members, "optimized_route", <<>>),
            explanation |-> Get(members, "explanation", <<>>),
            total_estimated_time |-> Get(members, "total_estimated_time", NoneVal)])

\* The gateway handler ending without a reply when the agent's reply is not
\* a 200.
GatewayReplyDropped(reply) ==
    IF reply.status # 200 THEN NoResponse
    ELSE IF reply.body.type # "object" THEN GatewayError(ExceptStatus("AttributeError"))
    ELSE [status |-> 200, body |-> RouteResponse(reply.body.members)]

\* optimize_route / optimize_route_crewai after the agent's reply arrived.
GatewayReply(reply) ==
    IF reply.status # 200 THEN GatewayError(ExceptStatus(HTTPException(500).cls))
    ELSE IF reply.body.type # "object" THEN GatewayError(ExceptStatus("AttributeError"))
    ELSE [status |-> 200, body |-> RouteResponse(reply.body.members)]

\* ------------------------------------------------------------------ state

VARIABLES
    pc,         \* where the request in progress is
    call,       \* the request in progress: endpoint (mode) and body
    posts,      \* outbound calls to the agent tier issued for it
    upstream,   \* what client.post ended with: "", an exception, "reply"
    tasks,      \* the task descriptions of the agent process's one crew
    prompts,    \* the prompts the model or the crew is run with for it
    kickoffs,   \* model / crew runs started for it
    outcome,    \* what the model client or crew.kickoff() handed back
    result,     \* what the normalizer returned
    agentResp,  \* the agent tier's reply
    gwResp      \* the gateway's reply

vars == <<pc, call, posts, upstream, tasks, prompts, kickoffs, outcome, result,
          agentResp, gwResp>>

Modes == {"direct", "pipeline"}

NoCall ==
    [mode |-> "direct",
     request |-> [addresses |-> <<>>, weather_condition |-> NoneVal,
                  traffic_condition |-> NoneVal, special_requirements |-> <<>>]]

\* The process after construction: no request yet, the crew's tasks as
\* setup_tasks left them.
Init ==
    /\ pc = "idle"
    /\ call = NoCall
    /\ posts = 0
    /\ upstream = ""
    /\ tasks = setup_tasks
    /\ prompts = <<>>
    /\ kickoffs = 0
    /\ outcome = NoOutcome
    /\ result = Null
    /\ agentResp = NoResponse
    /\ gwResp = NoResponse

\* The replies the model gives in the end-to-end specification.
SampleTexts ==
    {<<"w">>, <<" ", "w">>, <<"n">>, <<"{", "w", "}">>, <<"{", "}">>,
     <<"{", "b", "}">>, <<"{", "z", "}">>, <<"{", "l", "}">>, <<"w", "{", "f", "}">>}

\* Every reply of at most MaxLen tokens.
Alphabet == {" ", "w", "n", "{", "}", "b", "z"}
AllTexts == SeqsUpTo(Alphabet, MaxLen)

Outcomes(mode, texts) ==
    {Raised(c) : c \in TransportCauses}
    \cup {Text(t) : t \in texts}
    \cup (IF mode = "direct" THEN {NoContent}
          ELSE {Structured(Opaque), Structured(Object(Members("f")))})

\* The normalizer method is entered: direct mode builds its prompt and calls
\* the model; pipeline mode rewrites the shared task descriptions and starts
\* the crew, or returns the error result when the rewriting raises.
EnterNormalizer(mode, data, waiting, finished) ==
    IF mode = "direct"
    THEN /\ prompts' = <<create_prompt(data)>>
         /\ kickoffs' = kickoffs + 1
         /\ pc' = waiting
         /\ UNCHANGED <<tasks, result>>
    ELSE LET u == UpdateTasks(tasks, data)
         IN  /\ tasks' = u.tasks
             /\ IF u.ok
                THEN /\ prompts' = CrewPrompts(u.tasks)
                     /\ kickoffs' = kickoffs + 1
                     /\ pc' = waiting
                     /\ UNCHANGED result
                ELSE /\ result' = CrewErrorResult(data, u.error)
                     /\ pc' = finished
                     /\ UNCHANGED <<prompts, kickoffs>>

\* RouteOptimizerAgent.optimize_route_crewai: crew_optimizer.optimize_route
\* inside a try of its own.
optimize_route_crewai(data, o) == CrewOptimizeRoute(data, o)

Normalize(mode, data, o) ==
    IF mode = "direct" THEN DirectOptimizeRoute(data, o)
    ELSE optimize_route_crewai(data, o)

\* ---------------------------------------------------------------- actions

\* POST /optimize-route or /optimize-route-crewai reaches the gateway: the
\* handler validates and either fails or posts the request to the agent.
ClientRequestFrom(requests) ==
    /\ pc = "idle"
    /\ \E mode \in Modes, request \in requests :
        /\ call' = [mode |-> mode, request |-> request]
        /\ IF Validate(request).raised
           THEN /\ gwResp' = GatewayError(ExceptStatus(Validate(request).cls))
                /\ posts' = 0
                /\ pc' = "done"
           ELSE /\ gwResp' = NoResponse
                /\ posts' = 1
                /\ pc' = "posted"
    /\ UNCHANGED <<upstream, tasks, prompts, kickoffs, outcome, result, agentResp>>

ClientRequest == ClientRequestFrom(DeliveryRequest)

\* The gateway's reply is sent and the handlers' frames are gone; only the
\* agent process's crew stays.
HandlerEnds ==
    /\ pc = "done"
    /\ pc' = "idle"
    /\ call' = NoCall
    /\ posts' = 0
    /\ upstream' = ""
    /\ prompts' = <<>>
    /\ kickoffs' = 0
    /\ outcome' = NoOutcome
    /\ result' = Null
    /\ agentResp' = NoResponse
    /\ gwResp' = NoResponse
    /\ UNCHANGED tasks

\* client.post raises before the agent got the request.
ConnectFails ==
    /\ pc = "posted"
    /\ \E cls \in ConnectExceptions :
        /\ upstream' = cls
        /\ gwResp' = GatewayError(ExceptStatus(cls))
        /\ pc' = "done"
        /\ UNCHANGED <<call, posts, tasks, prompts, kickoffs, outcome, result, agentResp>>

\* client.post raises while the agent works on the request or its reply is
\* on the way.
ReadFails ==
    /\ pc \in {"agent", "responded"}
    /\ \E cls \in ReadExceptions :
        /\ upstream' = cls
        /\ gwResp' = GatewayError(ExceptStatus(cls))
        /\ pc' = "done"
        /\ UNCHANGED <<call, posts, tasks, prompts, kickoffs, outcome, result, agentResp>>

\* The agent's handler (optimize, optimize_crewai) gets the request.
AgentHandle ==
    /\ pc = "posted"
    /\ IF AgentRejects(call.request)
       THEN /\ agentResp' = AgentBadRequest
            /\ pc' = "responded"
            /\ UNCHANGED <<tasks, prompts, kickoffs, result>>
       ELSE /\ EnterNormalizer(call.mode, call.request, "agent", "responded")
            /\ agentResp' = IF pc' = "responded" THEN AgentReply(result') ELSE agentResp
    /\ UNCHANGED <<call, posts, upstream, outcome, gwResp>>

\* The model client or the crew comes back; the handler normalizes and
\* replies.
ModelReturns(texts) ==
    /\ pc = "agent"
    /\ \E o \in Outcomes(call.mode, texts) :
        /\ outcome' = o
        /\ result' = Normalize(call.mode, call.request, o)
        /\ agentResp' = AgentReply(result')
        /\ pc' = "responded"
        /\ UNCHANGED <<call, posts, upstream, tasks, prompts, kickoffs, gwResp>>

\* The agent's reply reaches the gateway handler, which answers the client.
GatewayReturn ==
    /\ pc = "responded"
    /\ upstream' = "reply"
    /\ gwResp' = GatewayReply(agentResp)
    /\ pc' = "done"
    /\ UNCHANGED <<call, posts, tasks, prompts, kickoffs, outcome, result, agentResp>>

Next ==
    \/ ClientRequest
    \/ HandlerEnds
    \/ ConnectFails
    \/ ReadFails
    \/ AgentHandle
    \/ ModelReturns(SampleTexts)
    \/ GatewayReturn

Spec == Init /\ [][Next]_vars

\* The normalizer methods called on their own (RouteOptimizerAgent.
\* optimize_route, RouteOptimizationCrew.optimize_route), once in a fresh
\* process, with every reply of at most MaxLen tokens.
NormalizerRequests ==
    {r \in DeliveryRequest : /\ r.weather_condition = "rain"
                             /\ r.traffic_condition = "heavy"
                             /\ r.special_requirements = <<>>}

NormalizerCall ==
    /\ pc = "idle"
    /\ \E mode \in Modes, data \in NormalizerRequests :
        /\ call' = [mode |-> mode, request |-> data]
        /\ EnterNormalizer(mode, data, "normalizing", "returned")
        /\ UNCHANGED <<posts, upstream, outcome, agentResp, gwResp>>

NormalizerReturn ==
    /\ pc = "normalizing"
    /\ \E o \in Outcomes(call.mode, AllTexts) :
        /\ outcome' = o
        /\ result' = IF call.mode = "direct" THEN DirectOptimizeRoute(call.request, o)
                     ELSE CrewOptimizeRoute(call.request, o)
        /\ pc' = "returned"
        /\ UNCHANGED <<call, posts, upstream, tasks, prompts, kickoffs, agentResp, gwResp>>

NextNormalizer == NormalizerCall \/ NormalizerReturn

SpecNormalizer == Init /\ [][NextNormalizer]_vars

\* ------------------------------------------------- handlers under fairness

\* The requests of the specification with fairness: every length of the
\* address list, a weather value with and without braces.
LiveRequests ==
    {r \in DeliveryRequest : /\ r.weather_condition # NoneVal
                             /\ r.traffic_condition = NoneVal
                             /\ r.special_requirements = <<>>}

\* POST /optimize or /optimize-crewai sent to the agent service itself: the
\* handler rejects the request or enters the normalizer.
AgentRequest ==
    /\ pc = "idle"
    /\ \E mode \in Modes, data \in LiveRequests :
        /\ call' = [mode |-> mode, request |-> data]
        /\ IF AgentRejects(data)
           THEN /\ agentResp' = AgentBadRequest
                /\ pc' = "done"
                /\ UNCHANGED <<tasks, prompts, kickoffs, result>>
           ELSE /\ EnterNormalizer(mode, data, "working", "done")
                /\ agentResp' = IF pc' = "done" THEN AgentReply(result') ELSE agentResp
    /\ UNCHANGED <<posts, upstream, outcome, gwResp>>

\* The model client or the crew comes back to the agent handler, which
\* replies to its caller.
AgentReturn(texts) ==
    /\ pc = "working"
    /\ \E o \in Outcomes(call.mode, texts) :
        /\ outcome' = o
        /\ result' = Normalize(call.mode, call.request, o)
        /\ agentResp' = AgentReply(result')
        /\ pc' = "done"
        /\ UNCHANGED <<call, posts, upstream, tasks, prompts, kickoffs, gwResp>>

\* What a handler that was entered goes on to do by itself.
HandlerSteps ==
    \/ ConnectFails
    \/ ReadFails
    \/ AgentHandle
    \/ ModelReturns(SampleTexts)
    \/ GatewayReturn
    \/ AgentReturn(SampleTexts)
    \/ HandlerEnds

NextLive ==
    \/ ClientRequestFrom(LiveRequests)
    \/ AgentRequest
    \/ HandlerSteps

\* Requests need not come.  A handler that was entered goes on: client.post
\* returns or raises within its timeout of 30 or 60 seconds, and the model
\* client and the crew come back or raise (the OpenAI client's own timeout).
SpecLive == Init /\ [][NextLive]_vars /\ WF_vars(HandlerSteps)


\* ----------------------------------------------------------------- claims

Invalid(request) == Len(request.addresses) < 2

\* C1: a gateway request whose address list is empty or has one entry is
\* answered with status 400, on both endpoints.
C1_InvalidAnswered400 ==
    (pc = "done" /\ Invalid(call.request)) => gwResp.status = 400

Timeouts == {"ConnectTimeout", "ReadTimeout"}

\* C2: for a request with two or more addresses, a connect failure is
\* answered 503, a timeout 504, every other failure (another transport
\* error, a non-200 agent reply, a reply that is no object) 500, and 503 and
\* 504 are answered for nothing else.
C2_ErrorClasses ==
    (pc = "done" /\ ~Invalid(call.request)) =>
        /\ upstream = "ConnectError" => gwResp.status = 503
        /\ upstream \in Timeouts => gwResp.status = 504
        /\ upstream = "ReadError" => gwResp.status = 500
        /\ (upstream = "reply" /\ agentResp.status # 200) => gwResp.status = 500
        /\ (upstream = "reply" /\ agentResp.body.type # "object") => gwResp.status = 500
        /\ gwResp.status = 503 => upstream = "ConnectError"
        /\ gwResp.status = 504 => upstream \in Timeouts
        /\ gwResp.status \in {200, 500, 503, 504}

\* C2's case: a connect timeout of a valid request, answered 504.
C2_Witness ==
    /\ pc = "done"
    /\ ~Invalid(call.request)
    /\ upstream = "ConnectTimeout"
    /\ gwResp.status = 504

\* C3: in both modes the normalizer returns a RouteResult, whatever the
\* model's outcome and the request.
C3_AlwaysRouteResult ==
    pc = "returned" => IsRouteResult(result)

\* C4: for a request with a non-empty address list the RouteResult returned
\* has a non-empty optimized_route, whatever the model's outcome.
C4_RouteNonEmpty ==
    (pc = "returned" /\ call.request.addresses # <<>> /\ IsRouteResult(result)) =>
        result.members.optimized_route # <<>>

\* The result is the normalizer's own: the model failed, or the normalizer
\* found no JSON it could parse in the reply.
Synthesized ==
    \/ outcome.kind \in {"error", "none"}
    \/ /\ outcome.kind = "text"
       /\ call.mode = "direct"
       /\ ~JsonLoads(outcome.text).ok
    \/ /\ outcome.kind = "text"
       /\ call.mode = "pipeline"
       /\ \/ RegexSearch(outcome.text) = <<>>
          \/ ~JsonLoads(RegexSearch(outcome.text)).ok

\* C4, amended: for a request with a non-empty address list, a result the
\* normalizer synthesizes itself has the input's address strings, in input
\* order, as its optimized_route, which is therefore non-empty.
C4_SynthesizedRouteNonEmpty ==
    (pc = "returned" /\ call.request.addresses # <<>> /\ Synthesized) =>
        /\ IsRouteResult(result)
        /\ result.members.optimized_route = AddressStrings(call.request.addresses)
        /\ result.members.optimized_route # <<>>

\* C4's case: a reply without JSON to a request with addresses.
C4_Witness ==
    /\ pc = "returned"
    /\ call.request.addresses # <<>>
    /\ outcome.kind = "text"
    /\ Synthesized
    /\ result.members.optimized_route # <<>>

\* The well-formed JSON objects inside a text: the places of their braces.
ObjectSpans(t) ==
    {sp \in (1..Len(t)) \X (1..Len(t)) :
        /\ sp[1] < sp[2]
        /\ t[sp[1]] = "{"
        /\ t[sp[2]] = "}"
        /\ JsonLoads(SubSeq(t, sp[1], sp[2])).ok}

\* The object written between two braces.
SpanObject(t, sp) == JsonLoads(SubSeq(t, sp[1], sp[2])).value

\* The text holds exactly one JSON object, and it has RouteResult's shape.
OneRouteResult(t) ==
    /\ Cardinality(ObjectSpans(t)) = 1
    /\ \A sp \in ObjectSpans(t) : IsRouteResult(SpanObject(t, sp))

TheObject(t) == SpanObject(t, CHOOSE sp \in ObjectSpans(t) : TRUE)

\* C5: a reply text that holds exactly one JSON object of RouteResult shape,
\* with or without text around it, is answered with that object.
C5_RoundTrip ==
    (pc = "returned" /\ outcome.kind = "text" /\ OneRouteResult(outcome.text)) =>
        result = TheObject(outcome.text)

\* The object is all of the reply that the mode looks at: in direct mode
\* only white space surrounds it, in pipeline mode no "{" comes before it
\* and no "}" after it.
ObjectIsWholeReply(mode, t) ==
    LET sp == CHOOSE x \in ObjectSpans(t) : TRUE
    IN  IF mode = "direct"
        THEN \A k \in 1..Len(t) : (k < sp[1] \/ k > sp[2]) => t[k] = " "
        ELSE /\ \A k \in 1..(sp[1] - 1) : t[k] # "{"
             /\ \A k \in (sp[2] + 1)..Len(t) : t[k] # "}"

\* C5, amended: the object is returned when it is all of the reply the mode
\* looks at: surrounded by white space only in direct mode, with no "{"
\* before it and no "}" after it in pipeline mode.
C5_RoundTripWholeReply ==
    (/\ pc = "returned"
     /\ outcome.kind = "text"
     /\ OneRouteResult(outcome.text)
     /\ ObjectIsWholeReply(call.mode, outcome.text)) =>
        result = TheObject(outcome.text)

\* C5's case: pipeline mode, an object with text before it.
C5_Witness ==
    /\ pc = "returned"
    /\ call.mode = "pipeline"
    /\ outcome.kind = "text"
    /\ OneRouteResult(outcome.text)
    /\ outcome.text[1] = "w"
    /\ result = TheObject(outcome.text)

IdentityResult(explanation) ==
    /\ IsRouteResult(result)
    /\ result.members.optimized_route = AddressStrings(call.request.addresses)
    /\ result.members.explanation = explanation

\* Plain text: the text holds no JSON object and is no JSON document itself.
PlainText(t) == ObjectSpans(t) = {} /\ ~JsonLoads(t).ok

\* C6: a plain-text reply that holds no JSON object is answered with the
\* input's address strings in input order and the reply text as explanation.
C6_PlainText ==
    (pc = "returned" /\ outcome.kind = "text" /\ PlainText(outcome.text)) =>
        IdentityResult(outcome.text)

\* C6, amended: in direct mode a reply that is not JSON is answered with
\* the input's address strings and the reply without its leading and
\* trailing white space as explanation; in pipeline mode a reply without a
\* "{" that a "}" follows is answered with the input's address strings and
\* the reply as explanation.
C6_PlainTextPerMode ==
    (pc = "returned" /\ outcome.kind = "text") =>
        /\ (call.mode = "direct" /\ ~JsonLoads(outcome.text).ok) =>
                IdentityResult(Strip(outcome.text))
        /\ (/\ call.mode = "pipeline"
            /\ ~\E i, j \in 1..Len(outcome.text) :
                    i < j /\ outcome.text[i] = "{" /\ outcome.text[j] = "}") =>
                IdentityResult(outcome.text)

\* C6's case: direct mode, a letter after white space.
C6_Witness ==
    /\ pc = "returned"
    /\ call.mode = "direct"
    /\ outcome.kind = "text"
    /\ outcome.text = <<" ", "w">>
    /\ result.members.explanation = <<"w">>

ErrorResult ==
    /\ IsRouteResult(result)
    /\ result.members.optimized_route = AddressStrings(call.request.addresses)
    /\ \E i \in 1..Len(result.members.explanation) :
            result.members.explanation[i] = outcome.cause
    /\ "total_estimated_time" \in DOMAIN result.members
    /\ result.members.total_estimated_time = "neizvestno"

\* C7: when the model client fails, the result has the identity route, an
\* explanation with the cause, total_estimated_time "unknown" and
\* success_probability 1, in both modes.
C7_FailureResult ==
    (pc = "returned" /\ outcome.kind = "error") =>
        /\ ErrorResult
        /\ "success_probability" \in DOMAIN result.members
        /\ result.members.success_probability = 1

\* C7, amended: when the model client fails, the result has the identity
\* route, an explanation with the cause and total_estimated_time "unknown";
\* success_probability is 1 in pipeline mode and absent in direct mode.
C7_FailureResultPerMode ==
    (pc = "returned" /\ outcome.kind = "error") =>
        /\ ErrorResult
        /\ call.mode = "pipeline" =>
            /\ "success_probability" \in DOMAIN result.members
            /\ result.members.success_probability = 1
        /\ call.mode = "direct" => "success_probability" \notin DOMAIN result.members

\* C7's case: a timeout of the model client in pipeline mode.
C7_Witness ==
    /\ pc = "returned"
    /\ call.mode = "pipeline"
    /\ outcome = Raised("Request timed out.")
    /\ call.request.addresses # <<>>
    /\ result.members.success_probability = 1

AgentRouteResult ==
    /\ pc = "done"
    /\ upstream = "reply"
    /\ agentResp.status = 200
    /\ IsRouteResult(agentResp.body)

\* C8: the gateway's body is the agent's RouteResult unchanged: no field
\* added, dropped or defaulted.
C8_PassThrough ==
    AgentRouteResult => (gwResp.status = 200 /\ gwResp.body = agentResp.body)

\* C8, amended: the gateway's body has exactly optimized_route, explanation
\* and total_estimated_time: the first two with the agent's values, the
\* third with the agent's value or null when the agent gave none;
\* risk_assessment and success_probability are not passed on.
C8_ThreeFields ==
    AgentRouteResult =>
        /\ gwResp.status = 200
        /\ gwResp.body.type = "object"
        /\ DOMAIN gwResp.body.members =
                {"optimized_route", "explanation", "total_estimated_time"}
        /\ gwResp.body.members.optimized_route = agentResp.body.members.optimized_route
        /\ gwResp.body.members.explanation = agentResp.body.members.explanation
        /\ gwResp.body.members.total_estimated_time =
                IF "total_estimated_time" \in DOMAIN agentResp.body.members
                THEN agentResp.body.members.total_estimated_time
                ELSE NoneVal

\* C8's case: the agent's result has five fields, the gateway's body three.
C8_Witness ==
    /\ AgentRouteResult
    /\ "success_probability" \in DOMAIN agentResp.body.members
    /\ gwResp.status = 200
    /\ "success_probability" \notin DOMAIN gwResp.body.members

\* C9: a request that fails the gateway's validation is never forwarded: no
\* call to the agent tier, and none to the model, is issued for it.
C9_InvalidNeverForwarded ==
    Invalid(call.request) =>
        /\ posts = 0
        /\ kickoffs = 0
        /\ pc \in {"idle", "done"}

\* C9's case: a request with one address, answered without a call upstream.
C9_Witness ==
    /\ pc = "done"
    /\ Len(call.request.addresses) = 1
    /\ gwResp.status >= 400
    /\ posts = 0

\* C10: the prompts a call runs the model or the crew with are built from
\* that call's own request alone.
C10_OwnPrompts ==
    kickoffs > 0 =>
        prompts = IF call.mode = "direct"
                  THEN <<create_prompt(call.request)>>
                  ELSE CrewPrompts(OwnTasks(call.request))

\* POST /optimize-route with two or more addresses, answered 200 by the
\* agent tier.
DirectAnswered ==
    /\ pc = "done"
    /\ call.mode = "direct"
    /\ ~Invalid(call.request)
    /\ upstream = "reply"
    /\ agentResp.status = 200

CrewFailed ==
    /\ call.mode = "pipeline"
    /\ result # Null
    /\ outcome.kind = "error" \/ kickoffs = 0

\* C13: in pipeline mode the crew is started at most once per request, and
\* a failure of the run is caught: the call returns the identity route, an
\* explanation that embeds the cause, total_estimated_time "unknown" and
\* success_probability 1, and the agent answers 200 with it.
C13_CrewRunsOnce ==
    /\ kickoffs <= 1
    /\ pc \in {"idle", "posted"} => kickoffs = 0
    /\ CrewFailed =>
        /\ IsRouteResult(result)
        /\ result.members.optimized_route = AddressStrings(call.request.addresses)
        /\ Len(result.members.explanation) >= 2
        /\ result.members.explanation[1] = "Oshibka CrewAI: "
        /\ outcome.kind = "error" => result.members.explanation[2] = outcome.cause
        /\ "total_estimated_time" \in DOMAIN result.members
        /\ result.members.total_estimated_time = "neizvestno"
        /\ "success_probability" \in DOMAIN result.members
        /\ result.members.success_probability = 1
        /\ agentResp = AgentReply(result)
        /\ agentResp.status = 200

\* C13's case: the one run of the crew raised, and the gateway has passed
\* the error result on.
C13_Witness ==
    /\ pc = "done"
    /\ call.mode = "pipeline"
    /\ kickoffs = 1
    /\ outcome.kind = "error"
    /\ upstream = "reply"
    /\ gwResp.status = 200
    /\ result.members.success_probability = 1

\* The reply holds a "{" that a "}" follows, and the span from the first "{"
\* to the last "}" is no JSON.
BrokenSpan(t) == RegexSearch(t) # <<>> /\ ~JsonLoads(RegexSearch(t)).ok

DefaultTime ==
    /\ "total_estimated_time" \in DOMAIN result.members
    /\ result.members.total_estimated_time = "2-3 chasa"

InProgress == pc \in {"posted", "agent", "responded", "working"}

\* The caller of the request has its response: the gateway's client the
\* gateway's reply, the agent's direct caller the agent's.
Answered ==
    IF posts = 0 /\ gwResp = NoResponse
    THEN agentResp.status \in {200, 400, 500}
    ELSE gwResp.status \in {200, 400, 500, 503, 504}

\* C12: every request a gateway or agent endpoint accepted gets exactly one
\* response in the end: a request in progress comes to its end, at its end
\* its caller has a result body or an error status, and a response once
\* given is not changed for that request.
C12_EveryRequestAnswered ==
    /\ [](InProgress => <>(pc = "done"))
    /\ [](pc = "done" => Answered)
    /\ [][/\ gwResp # NoResponse => (gwResp' = gwResp \/ pc' = "idle")
          /\ agentResp # NoResponse => (agentResp' = agentResp \/ pc' = "idle")]_vars

\* C12's case: the agent worked on a request when client.post timed out,
\* and the client got its 504.
C12_Witness ==
    /\ pc = "done"
    /\ upstream = "ReadTimeout"
    /\ kickoffs = 1
    /\ gwResp.status = 504

====
